---- MODULE Spec2Model ----
(***************************************************************************)
(* Model of packages/bazel/src/ng_package/packager.ts: the ng_package      *)
(* packager.  The program is string and path algebra over file trees, so   *)
(* a JavaScript string is modelled as a sequence of one-character strings  *)
(* and every library call the packager makes on strings and paths          *)
(* (String.prototype.split/includes/substr/replace, path.join,            *)
(* path.relative, path.dirname, path.basename) is computed character by    *)
(* character, the way Node computes it on a POSIX host.                    *)
(***************************************************************************)
EXTENDS Integers, Sequences, FiniteSets, TLC

(***************************************************************************)
(* JavaScript strings                                                      *)
(***************************************************************************)

\* s.substr(n) for 0 <= n: the characters from 0-based index n on.
Substr(s, n) ==
    IF n >= Len(s) THEN <<>> ELSE SubSeq(s, n + 1, Len(s))

\* whether t occurs in s at the 1-based position i
MatchAt(s, t, i) ==
    /\ i >= 1
    /\ i + Len(t) - 1 <= Len(s)
    /\ SubSeq(s, i, i + Len(t) - 1) = t

StartsWith(s, t) == MatchAt(s, t, 1)

EndsWith(s, t) == Len(t) <= Len(s) /\ MatchAt(s, t, Len(s) - Len(t) + 1)

\* s.includes(t), also s.indexOf(t) >= 0
Includes(s, t) == \E i \in 1..(Len(s) + 1) : MatchAt(s, t, i)

\* the least 1-based position of t in s (0 when there is none)
IndexOf(s, t) ==
    IF Includes(s, t)
    THEN CHOOSE i \in 1..(Len(s) + 1) :
             /\ MatchAt(s, t, i)
             /\ \A k \in 1..(i - 1) : ~MatchAt(s, t, k)
    ELSE 0

\* s.split(sep) for a non-empty separator; SplitFrom is the scan, given the
\* position i of the first separator (0 when there is none)
RECURSIVE SplitFrom(_, _, _)
SplitFrom(s, sep, i) ==
    IF i = 0
    THEN <<s>>
    ELSE <<SubSeq(s, 1, i - 1)>>
         \o SplitFrom(Substr(s, i - 1 + Len(sep)), sep,
                      IndexOf(Substr(s, i - 1 + Len(sep)), sep))

Split(s, sep) == SplitFrom(s, sep, IndexOf(s, sep))

\* parts.join(sep)
RECURSIVE Join(_, _)
Join(parts, sep) ==
    IF Len(parts) = 0 THEN <<>>
    ELSE IF Len(parts) = 1 THEN parts[1]
    ELSE parts[1] \o sep \o Join(Tail(parts), sep)

\* s.replace(/t$/, r) for a literal t anchored at the end
ReplaceSuffix(s, t, r) ==
    IF EndsWith(s, t) THEN SubSeq(s, 1, Len(s) - Len(t)) \o r ELSE s

(***************************************************************************)
(* Node's path module (POSIX)                                              *)
(***************************************************************************)

Slash == <<"/">>
Dot == <<".">>
DotDot == <<".", ".">>

\* the working directory of the process, as path segments below the root
Cwd == << <<"w">> >>

IsAbsolute(p) == StartsWith(p, Slash)

\* normalizeString: drops empty and "." segments and resolves ".."; a ".."
\* with nothing to pop is kept for a relative path and dropped at the root
RECURSIVE NormalizeSegs(_, _, _)
NormalizeSegs(segs, acc, allowAboveRoot) ==
    IF Len(segs) = 0 THEN acc
    ELSE LET h == Head(segs)
             t == Tail(segs)
         IN  IF h = <<>> \/ h = Dot
             THEN NormalizeSegs(t, acc, allowAboveRoot)
             ELSE IF h = DotDot
             THEN IF Len(acc) > 0 /\ acc[Len(acc)] # DotDot
                  THEN NormalizeSegs(t, SubSeq(acc, 1, Len(acc) - 1), allowAboveRoot)
                  ELSE IF allowAboveRoot
                  THEN NormalizeSegs(t, Append(acc, DotDot), allowAboveRoot)
                  ELSE NormalizeSegs(t, acc, allowAboveRoot)
             ELSE NormalizeSegs(t, Append(acc, h), allowAboveRoot)

\* the tail of path.normalize(p), given the normalized body of p
NormalizeEnd(p, body) ==
    IF IsAbsolute(p)
    THEN IF Len(body) > 0 /\ EndsWith(p, Slash)
         THEN Slash \o body \o Slash
         ELSE Slash \o body
    ELSE IF Len(body) = 0
    THEN IF EndsWith(p, Slash) THEN <<".", "/">> ELSE Dot
    ELSE IF EndsWith(p, Slash) THEN body \o Slash ELSE body

\* path.normalize(p)
Normalize(p) ==
    IF Len(p) = 0 THEN Dot
    ELSE NormalizeEnd(p, Join(NormalizeSegs(Split(p, Slash), <<>>, ~IsAbsolute(p)),
                              Slash))

NonEmpty(x) == Len(x) > 0

\* path.join(...parts): the non-empty parts joined by "/" and normalized
\* (Normalize maps the empty string to ".")
PathJoin(parts) == Normalize(Join(SelectSeq(parts, NonEmpty), Slash))

\* path.resolve(p): the segments of the absolute path of p
Resolve(p) ==
    NormalizeSegs((IF IsAbsolute(p) THEN <<>> ELSE Cwd) \o Split(p, Slash),
                  <<>>, FALSE)

\* the length of the longest common prefix of two segment lists
RECURSIVE CommonLen(_, _)
CommonLen(a, b) ==
    IF Len(a) = 0 \/ Len(b) = 0 \/ Head(a) # Head(b) THEN 0
    ELSE 1 + CommonLen(Tail(a), Tail(b))

\* the relative path from the directory f to t (both resolved), c being the
\* length of their common prefix
RelativeSegs(f, t, c) ==
    Join([k \in 1..(Len(f) - c) |-> DotDot] \o SubSeq(t, c + 1, Len(t)), Slash)

\* path.relative(from, to)
Relative(from, to) ==
    RelativeSegs(Resolve(from), Resolve(to), CommonLen(Resolve(from), Resolve(to)))

\* p without its trailing slashes
RECURSIVE StripTrailingSlashes(_)
StripTrailingSlashes(p) ==
    IF Len(p) > 0 /\ p[Len(p)] = "/"
    THEN StripTrailingSlashes(SubSeq(p, 1, Len(p) - 1))
    ELSE p

Last(seq) == seq[Len(seq)]

\* path.basename(p)
Basename(p) == Last(Split(StripTrailingSlashes(p), Slash))

\* the positions (from the second character on) of the slashes of p that a
\* character other than a slash follows
DirnameCuts(p) ==
    {i \in 2..Len(p) : p[i] = "/" /\ \E k \in (i + 1)..Len(p) : p[k] # "/"}

Max(S) == CHOOSE i \in S : \A k \in S : k <= i

\* path.dirname(p)
Dirname(p) ==
    IF Len(p) = 0 THEN Dot
    ELSE IF DirnameCuts(p) = {}
    THEN IF IsAbsolute(p) THEN Slash ELSE Dot
    ELSE IF IsAbsolute(p) /\ Max(DirnameCuts(p)) = 2
    THEN <<"/", "/">>
    ELSE SubSeq(p, 1, Max(DirnameCuts(p)) - 1)

\* normalizeSeparators: backslashes become forward slashes
NormalizeSeparators(p) ==
    [k \in 1..Len(p) |-> IF p[k] = "\\" THEN "/" ELSE p[k]]

(***************************************************************************)
(* getBundleName                                                           *)
(***************************************************************************)

\* arr.slice(1), arr.splice(1): the elements from index 1 on
Slice1(arr) == IF Len(arr) = 0 THEN <<>> ELSE Tail(arr)

\* newArray(size, value)
NewArray(size, value) == [k \in 1..size |-> value]

Bundles == <<"b", "u", "n", "d", "l", "e", "s">>
Fesm2015 == <<"f", "e", "s", "m", "2", "0", "1", "5">>
DotJs == <<".", "j", "s">>
DotUmd == <<".", "u", "m", "d">>

\* x || y for strings
OrElse(x, y) == IF Len(x) = 0 THEN y ELSE x

\* the rest of getBundleName, given nameParts
BundleNameOf(nameParts, dir) ==
    Join(<<OrElse(Join(NewArray(Len(nameParts) - 1, DotDot), Slash), Dot),
           dir,
           (IF dir = Bundles
            THEN Join(nameParts, <<"-">>) \o DotUmd
            ELSE IF Len(nameParts) = 1
            THEN nameParts[1]
            ELSE Join(Slice1(nameParts), Slash)) \o DotJs>>,
         Slash)

\* the scoped package part, like @angular, removed if present
NameParts(packageName, parts) ==
    IF StartsWith(packageName, <<"@">>) THEN Slice1(parts) ELSE parts

\* getBundleName with the scope segment left in nameParts
getBundleNameKeepingScope(packageName, dir) ==
    BundleNameOf(Split(packageName, Slash), dir)

\* e.g. @angular/common/http/testing -> ../../bundles/common-http-testing.umd.js
getBundleName(packageName, dir) ==
    BundleNameOf(NameParts(packageName, Split(packageName, Slash)), dir)

(***************************************************************************)
(* Program state                                                           *)
(***************************************************************************)

VARIABLES
    pc,                \* where the run (or the single call under study) stands
    params,            \* out, srcDir, binDir, genfilesDir of the params file
    modulesManifest,   \* module name -> module files, parsed from modulesManifestArg
    srcs,              \* the files of srcsArg, each with the content read from disk
    srcIdx,            \* how many entries of srcs the loop has processed
    modIdx,            \* how many module entries the synthesis has processed
    errorHasOccured,
    rootPackageName,
    packagesWithExistingPackageJson,
    disk,              \* the destination file system: path -> content
    writes,            \* every file written so far, in order
    stderr,            \* the diagnostics printed so far, in order
    exitCode,          \* what main returned ("none" while it runs)
    arg,               \* the arguments of the call under study
    ret                \* the values the calls under study returned, in order

vars == <<pc, params, modulesManifest, srcs, srcIdx, modIdx, errorHasOccured,
          rootPackageName, packagesWithExistingPackageJson, disk, writes,
          stderr, exitCode, arg, ret>>

\* undefined / absent, for a value the program tests for truthiness
NoValue == <<>>

PackageJson == <<"p", "a", "c", "k", "a", "g", "e", ".", "j", "s", "o", "n">>

(***************************************************************************)
(* Parsed package.json: the properties in insertion order, each a pair     *)
(* <<key, value>>.  JSON.stringify(obj, null, 2) writes the properties in  *)
(* that order, so the serialized text is modelled by the ordered list of   *)
(* properties tagged as JSON text.                                         *)
(***************************************************************************)

HasKey(obj, key) == \E k \in 1..Len(obj) : obj[k][1] = key

\* obj[key], NoValue when the property is absent
Get(obj, key) ==
    IF HasKey(obj, key)
    THEN obj[CHOOSE k \in 1..Len(obj) : obj[k][1] = key][2]
    ELSE NoValue

\* obj[key] = value: in place when the property exists, else appended
Put(obj, key, value) ==
    IF HasKey(obj, key)
    THEN [k \in 1..Len(obj) |-> IF obj[k][1] = key THEN <<key, value>> ELSE obj[k]]
    ELSE Append(obj, <<key, value>>)

\* Object.keys(obj)
Keys(obj) == [k \in 1..Len(obj) |-> obj[k][1]]

\* a JSON text: the properties and the indentation they are printed with
JsonText(obj, indent) == [type |-> "json", indent |-> indent, properties |-> obj]

\* JSON.stringify(obj, null, 2)
JsonStringify(obj) == JsonText(obj, 2)

JsonParse(text) == text.properties

\* knownFormatPackageJsonFields
knownFormatPackageJsonFields ==
    <<"main", "fesm2015", "esm2015", "typings", "module", "es2015">>

\* Whether the package explicitly sets any of the format properties.
hasExplicitFormatProperties(parsedPackage) ==
    \E k \in 1..Len(parsedPackage) :
        \E f \in 1..Len(knownFormatPackageJsonFields) :
            parsedPackage[k][1] = knownFormatPackageJsonFields[f]

(***************************************************************************)
(* Module files                                                            *)
(***************************************************************************)

Esm2015Dir == <<"e", "s", "m", "2", "0", "1", "5">>

\* moduleFiles['esm2015_index'], attached to every module entry at startup
Esm2015Index(prm, moduleFiles) ==
    PathJoin(<<prm.binDir, Esm2015Dir, Relative(prm.binDir, moduleFiles.index)>>)

\* the result of srcDirRelative, "./" put before a path that does not go up
DotSlash(result) ==
    IF StartsWith(result, DotDot) THEN result ELSE <<".", "/">> \o result

\* Convert a binDir-relative path to srcDir-relative
srcDirRelative(prm, from, file) ==
    DotSlash(NormalizeSeparators(
                 Relative(Dirname(from),
                          PathJoin(<<prm.srcDir, Relative(prm.binDir, file)>>))))

(***************************************************************************)
(* writeFileFromInputPath                                                  *)
(***************************************************************************)

\* rootDir: the first of binDir, genfilesDir that the path contains, else srcDir
RootDirOf(prm, inputPath) ==
    IF Includes(inputPath, prm.binDir) THEN prm.binDir
    ELSE IF Includes(inputPath, prm.genfilesDir) THEN prm.genfilesDir
    ELSE prm.srcDir

OutputPathOf(prm, inputPath) ==
    PathJoin(<<prm.out, Relative(RootDirOf(prm, inputPath), inputPath)>>)

\* fs.writeFileSync(path, content) on the destination file system
WriteFile(fs, path, content) ==
    [f \in DOMAIN fs \cup {path} |-> IF f = path THEN content ELSE fs[f]]

\* the record kept of one writeFileFromInputPath call
Written(prm, inputPath, fileContent) ==
    [inputPath |-> inputPath,
     rootDir |-> RootDirOf(prm, inputPath),
     outputPath |-> OutputPathOf(prm, inputPath),
     content |-> fileContent]

(***************************************************************************)
(* copyFile.  A file's content is its lines.  shx.cp, shx.mv and shx.sed   *)
(* act on the destination file system; with shx.set('-e') a failing shx    *)
(* command throws and ends the run.                                        *)
(***************************************************************************)

DotMjs == <<".", "m", "j", "s">>
DotMap == <<".", "m", "a", "p">>
Escape == <<"_", "_">>

\* output file is .js if the input file is .mjs
OutFileOf(file, dir) ==
    PathJoin(<<dir, Basename(IF EndsWith(file, DotMjs)
                             THEN ReplaceSuffix(file, DotMjs, DotJs)
                             ELSE file)>>)

\* the unescaped path: the basename split on '__' and joined as directories
UnescapedPathOf(dir, outFile) == PathJoin(<<dir>> \o Split(Basename(outFile), Escape))

\* the file shx.mv is told to move
MvSourceOf(dir, file) == PathJoin(<<dir, Basename(file)>>)

\* shx.mv(from, to) of an existing file
Mv(fs, from, to) ==
    [f \in (DOMAIN fs \ {from}) \cup {to} |-> IF f = to THEN fs[from] ELSE fs[f]]

\* whether the search string of shx.sed, read as a regular expression ('.'
\* matches any character), matches the line at position i
RegexMatchAt(line, search, i) ==
    /\ i + Len(search) - 1 <= Len(line)
    /\ \A k \in 1..Len(search) : search[k] = "." \/ search[k] = line[i + k - 1]

\* line.replace(regex, replacement): the first match only
SedLine(line, search, replacement) ==
    IF \E i \in 1..Len(line) : RegexMatchAt(line, search, i)
    THEN LET i == CHOOSE i \in 1..Len(line) :
                      /\ RegexMatchAt(line, search, i)
                      /\ \A k \in 1..(i - 1) : ~RegexMatchAt(line, search, k)
         IN  SubSeq(line, 1, i - 1) \o replacement \o Substr(line, i - 1 + Len(search))
    ELSE line

\* shx.sed('-i', search, replacement, path)
Sed(fs, search, replacement, path) ==
    WriteFile(fs, path,
              [k \in 1..Len(fs[path]) |-> SedLine(fs[path][k], search, replacement)])

CopyResult(fs, thrown) == [disk |-> fs, thrown |-> thrown]

\* if we are renaming the .js file, update the sourceMappingURL in the file
UpdateSourceMappingURL(fs, file, outFile, outputPath) ==
    IF EndsWith(outFile, DotJs)
    THEN CopyResult(Sed(fs, Basename(file) \o DotMap, Basename(outputPath) \o DotMap,
                        outputPath),
                    FALSE)
    ELSE CopyResult(fs, FALSE)

\* Double-underscore is used to escape forward slash in FESM filenames.
Unescape(fs, file, dir, outFile) ==
    IF ~Includes(outFile, Escape)
    THEN CopyResult(fs, FALSE)
    ELSE IF MvSourceOf(dir, file) \notin DOMAIN fs
    THEN CopyResult(fs, TRUE)
    ELSE UpdateSourceMappingURL(
             Mv(fs, MvSourceOf(dir, file), UnescapedPathOf(dir, outFile)),
             file, outFile, UnescapedPathOf(dir, outFile))

\* copyFile, once dir is known
CopyInto(fs, file, content, dir) ==
    Unescape(WriteFile(fs, OutFileOf(file, dir), content), file, dir,
             OutFileOf(file, dir))

copyFile(fs, file, content, baseDir, relative) ==
    CopyInto(fs, file, content, PathJoin(<<baseDir, relative>>))

(***************************************************************************)
(* amendPackageJson: returns the serialized package.json, the parsed       *)
(* package as the call leaves it (the argument is mutated in place) and    *)
(* the warning it printed.                                                 *)
(***************************************************************************)

AmendResult(parsedPackage, warning) ==
    [content |-> JsonStringify(parsedPackage),
     parsedPackage |-> parsedPackage,
     warning |-> warning]

\* parsedPackage[to] = parsedPackage[from]
Alias(parsedPackage, to, from) == Put(parsedPackage, to, Get(parsedPackage, from))

\* FormatProperties with 'module' and 'es2015' pointed at 'main'
FormatPropertiesAliasingMain(prm, packageJson, parsedPackage, packageName, moduleData) ==
    Alias(Alias(Put(Put(Put(Put(parsedPackage,
        "main", getBundleName(packageName, Bundles)),
        "fesm2015", getBundleName(packageName, Fesm2015)),
        "esm2015", srcDirRelative(prm, packageJson, Esm2015Index(prm, moduleData))),
        "typings", srcDirRelative(prm, packageJson, moduleData.typings)),
        "module", "main"),
        "es2015", "main")

\* the properties amendPackageJson sets, in the order it sets them
FormatProperties(prm, packageJson, parsedPackage, packageName, moduleData) ==
    Alias(Alias(Put(Put(Put(Put(parsedPackage,
        "main", getBundleName(packageName, Bundles)),
        "fesm2015", getBundleName(packageName, Fesm2015)),
        "esm2015", srcDirRelative(prm, packageJson, Esm2015Index(prm, moduleData))),
        "typings", srcDirRelative(prm, packageJson, moduleData.typings)),
        "module", "fesm2015"),
        "es2015", "fesm2015")

\* amendPackageJson without the rule that skips explicit format properties
amendPackageJsonNeverSkipping(prm, mm, packageJson, parsedPackage, isGenerated) ==
    IF Get(parsedPackage, "name") \notin DOMAIN mm
    THEN AmendResult(parsedPackage, "no module metadata")
    ELSE AmendResult(FormatProperties(prm, packageJson, parsedPackage,
                                      Get(parsedPackage, "name"),
                                      mm[Get(parsedPackage, "name")]),
                     "none")

amendPackageJson(prm, mm, packageJson, parsedPackage, isGeneratedPackageJson) ==
    IF Get(parsedPackage, "name") \notin DOMAIN mm
    THEN AmendResult(parsedPackage, "no module metadata")
    ELSE IF /\ mm[Get(parsedPackage, "name")].guessedPaths
            /\ ~isGeneratedPackageJson
            /\ hasExplicitFormatProperties(parsedPackage)
    THEN AmendResult(parsedPackage, "explicit format properties")
    ELSE AmendResult(FormatProperties(prm, packageJson, parsedPackage,
                                      Get(parsedPackage, "name"),
                                      mm[Get(parsedPackage, "name")]),
                     "none")

(***************************************************************************)
(* Files generated for secondary entry points.  Every file main writes is  *)
(* logged with what it is (kind), the module or source it is written for   *)
(* (owner) and the warning its amendment printed.                          *)
(***************************************************************************)

DotMetadataJson == <<".", "m", "e", "t", "a", "d", "a", "t", "a", ".", "j", "s", "o", "n">>
DotDTs == <<".", "d", ".", "t", "s">>

Logged(written, kind, owner, warning) ==
    [inputPath |-> written.inputPath,
     rootDir |-> written.rootDir,
     outputPath |-> written.outputPath,
     content |-> written.content,
     kind |-> kind,
     owner |-> owner,
     warning |-> warning]

\* metadataFile.replace(/.metadata.json$/, ''): the dots match any character
StripMetadataJson(file) ==
    IF /\ Len(file) >= Len(DotMetadataJson)
       /\ RegexMatchAt(file, DotMetadataJson, Len(file) - Len(DotMetadataJson) + 1)
    THEN SubSeq(file, 1, Len(file) - Len(DotMetadataJson))
    ELSE file

\* typingsFile.replace(/\.d\.tsx?$/, '')
StripDTs(file) ==
    IF EndsWith(file, DotDTs) THEN ReplaceSuffix(file, DotDTs, <<>>)
    ELSE IF EndsWith(file, DotDTs \o <<"x">>) THEN ReplaceSuffix(file, DotDTs \o <<"x">>, <<>>)
    ELSE file

MetadataReexport(prm, inputPath, metadataFile, packageName) ==
    [type |-> "metadata",
     exports |-> srcDirRelative(prm, inputPath, StripMetadataJson(metadataFile)),
     importAs |-> packageName]

\* createMetadataReexportFile called whether or not the module has metadata
createMetadataReexportFileAlways(prm, entryPointName, metadataFile, packageName) ==
    <<Logged(Written(prm, PathJoin(<<prm.srcDir, entryPointName \o DotMetadataJson>>),
                     MetadataReexport(prm,
                         PathJoin(<<prm.srcDir, entryPointName \o DotMetadataJson>>),
                         metadataFile, packageName)),
             "metadata", packageName, "none")>>

\* createMetadataReexportFile with the metadata test of its call site: nothing
\* is written for a module without metadata
createMetadataReexportFile(prm, entryPointName, metadataFile, packageName) ==
    IF metadataFile = NoValue THEN <<>>
    ELSE <<Logged(Written(prm, PathJoin(<<prm.srcDir, entryPointName \o DotMetadataJson>>),
                          MetadataReexport(prm,
                              PathJoin(<<prm.srcDir, entryPointName \o DotMetadataJson>>),
                              metadataFile, packageName)),
                  "metadata", packageName, "none")>>

TypingsReexport(prm, inputPath, license, typingsFile) ==
    [type |-> "typings",
     license |-> license,
     exports |-> srcDirRelative(prm, inputPath, StripDTs(typingsFile))]

createTypingsReexportFile(prm, entryPointName, license, typingsFile, packageName) ==
    <<Logged(Written(prm, PathJoin(<<prm.srcDir, entryPointName \o DotDTs>>),
                     TypingsReexport(prm, PathJoin(<<prm.srcDir, entryPointName \o DotDTs>>),
                                     license, typingsFile)),
             "typings", packageName, "none")>>

LoggedAmended(prm, pkgJson, amended, kind, owner) ==
    Logged(Written(prm, pkgJson, amended.content), kind, owner, amended.warning)

\* createEntryPointPackageJson with the test of its call site: only for a
\* package no package.json of the srcs declared
createEntryPointPackageJson(prm, mm, existing, dir, entryPointPackageName) ==
    IF entryPointPackageName \in existing THEN <<>>
    ELSE <<LoggedAmended(prm, PathJoin(<<prm.srcDir, dir, PackageJson>>),
                         amendPackageJson(prm, mm, PathJoin(<<prm.srcDir, dir, PackageJson>>),
                                          << <<"name", entryPointPackageName>> >>, TRUE),
                         "packageJson", entryPointPackageName)>>

\* the files generated for one module, given its entry point name
EntryPointFiles(prm, mm, existing, entryPointName, name) ==
    IF entryPointName = <<>> THEN <<>>
    ELSE createMetadataReexportFile(prm, entryPointName, mm[name].metadata, name)
         \o createTypingsReexportFile(prm, entryPointName, <<>>, mm[name].typings, name)
         \o createEntryPointPackageJson(prm, mm, existing, entryPointName, name)

\* the writes in order, applied to the destination file system
RECURSIVE WriteAll(_, _)
WriteAll(fs, logged) ==
    IF Len(logged) = 0 THEN fs
    ELSE WriteAll(WriteFile(fs, logged[1].outputPath, logged[1].content), Tail(logged))

RECURSIVE WarnAll(_, _)
WarnAll(log, logged) ==
    IF Len(logged) = 0 THEN log
    ELSE WarnAll(IF logged[1].warning = "none" THEN log ELSE Append(log, logged[1].warning),
                 Tail(logged))

(***************************************************************************)
(* Inputs of the bounded runs                                              *)
(***************************************************************************)

\* every string over the alphabet of at most n characters
StringsUpTo(alphabet, n) == UNION {[1..k -> alphabet] : k \in 0..n}

\* The params of a run: srcDir is the package of the rule's label and the
\* bin and genfiles directories are the output roots joined with it.
Layout == [out |-> <<"o">>,
           srcDir |-> <<"s">>,
           binDir |-> <<"b", "/", "s">>,
           genfilesDir |-> <<"g", "/", "s">>]

\* module names: a root package, a secondary entry point of it, a secondary
\* entry point of another package
NameAC == <<"@", "a", "/", "c">>
NameACH == <<"@", "a", "/", "c", "/", "h">>
NameBCH == <<"@", "b", "/", "c", "/", "h">>
AngularCommon == <<"@", "a", "n", "g", "u", "l", "a", "r", "/", "c", "o", "m", "m", "o", "n">>
AngularCommonHttp == <<"@", "a", "n", "g", "u", "l", "a", "r", "/", "c", "o", "m", "m", "o", "n", "/", "h", "t", "t", "p">>

\* The files ng_package.bzl records for a module: the bundle index, the
\* typings and (optionally) the flat module metadata, all under binDir.
StemParts(parts) == Slice1(Slice1(parts)) \o <<Last(parts)>>

ModuleStem(prm, name) == PathJoin(<<prm.binDir>> \o StemParts(Split(name, Slash)))

ModuleFiles(prm, name, hasMetadata, guessedPaths) ==
    [index |-> ModuleStem(prm, name) \o DotJs,
     typings |-> ModuleStem(prm, name) \o DotDTs,
     metadata |-> IF hasMetadata
                  THEN ModuleStem(prm, name) \o DotMetadataJson
                  ELSE NoValue,
     guessedPaths |-> guessedPaths]

\* the value every variable a specification does not use keeps
Unused ==
    /\ srcs = <<>>
    /\ srcIdx = 0
    /\ modIdx = 0
    /\ errorHasOccured = FALSE
    /\ rootPackageName = <<>>
    /\ packagesWithExistingPackageJson = {}
    /\ exitCode = "none"

UnusedUnchanged ==
    UNCHANGED <<srcs, srcIdx, modIdx, errorHasOccured, rootPackageName,
                packagesWithExistingPackageJson, exitCode>>

(***************************************************************************)
(* SpecBundle: getBundleName applied to a package name and a directory     *)
(***************************************************************************)

MaxNameLen == 4

BundleNames ==
    {AngularCommon, AngularCommonHttp} \cup StringsUpTo({"@", "a", "/"}, MaxNameLen)

InitBundle ==
    /\ pc = "bundle"
    /\ params = Layout
    /\ modulesManifest = <<>>
    /\ arg \in [packageName : BundleNames, dir : {Bundles, Fesm2015}]
    /\ ret = <<>>
    /\ disk = <<>>
    /\ writes = <<>>
    /\ stderr = <<>>
    /\ Unused

CallGetBundleName ==
    /\ pc = "bundle"
    /\ ret' = <<getBundleName(arg.packageName, arg.dir)>>
    /\ pc' = "returned"
    /\ UNCHANGED <<params, modulesManifest, arg, disk, writes, stderr>>
    /\ UnusedUnchanged

NextBundle == CallGetBundleName

SpecBundle == InitBundle /\ [][NextBundle]_vars

\* C2 as claimed: getBundleName(name, 'bundles') is ../../bundles/common-http.umd.js
\* for @angular/common/http and ../bundles/common.umd.js for @angular/common.
C2_AsClaimed ==
    (pc = "returned" /\ arg.dir = Bundles) =>
        /\ arg.packageName = AngularCommonHttp =>
               ret[1] = 
                   <<".", ".", "/", ".", ".", "/", "b", "u", "n", "d", "l", "e", "s", "/", "c", "o", "m", "m", "o", "n", "-", "h", "t", "t", "p", ".", "u", "m", "d", ".", "j", "s">>
        /\ arg.packageName = AngularCommon =>
               ret[1] = 
                   <<".", ".", "/", "b", "u", "n", "d", "l", "e", "s", "/", "c", "o", "m", "m", "o", "n", ".", "u", "m", "d", ".", "j", "s">>

\* C2, amended: getBundleName(name, 'bundles') is ../bundles/common-http.umd.js for
\* @angular/common/http (one level up for the one sub-package segment) and
\* ./bundles/common.umd.js for @angular/common (the root package: ".").
C2_BundleNames ==
    (pc = "returned" /\ arg.dir = Bundles) =>
        /\ arg.packageName = AngularCommonHttp =>
               ret[1] = 
                   <<".", ".", "/", "b", "u", "n", "d", "l", "e", "s", "/", "c", "o", "m", "m", "o", "n", "-", "h", "t", "t", "p", ".", "u", "m", "d", ".", "j", "s">>
        /\ arg.packageName = AngularCommon =>
               ret[1] = 
                   <<".", "/", "b", "u", "n", "d", "l", "e", "s", "/", "c", "o", "m", "m", "o", "n", ".", "u", "m", "d", ".", "j", "s">>

C2_Witness ==
    /\ pc = "returned"
    /\ arg.dir = Bundles
    /\ arg.packageName = AngularCommonHttp
    /\ Len(ret[1]) > 0

(***************************************************************************)
(* SpecAmend: amendPackageJson applied to a package.json, and applied      *)
(* again (as for a checked-in package.json) to what it returned            *)
(***************************************************************************)

AmendNames == {NameAC, NameACH, <<"c">>}

\* the properties a package.json may carry besides its name
ExtraProperties ==
    << <<"version", <<"1">> >>,
       <<"main", <<"m", ".", "j", "s">> >>,
       <<"typings", <<"t", ".", "d", ".", "t", "s">> >> >>

RECURSIVE SubSeqs(_)
\* every subsequence of a sequence
SubSeqs(q) ==
    IF Len(q) = 0 THEN {<<>>}
    ELSE LET rest == SubSeqs(Tail(q))
         IN  rest \cup {<<Head(q)>> \o r : r \in rest}

Manifests(names) ==
    {<< <<"name", n>> >> \o extra : n \in names, extra \in SubSeqs(ExtraProperties)}

\* a modules manifest holding at most the one module of the given name
ModuleMapsOf(prm, names) ==
    {<<>>} \cup
    {[n \in {name} |-> ModuleFiles(prm, name, meta, guessed)] :
         name \in names, meta \in {TRUE}, guessed \in BOOLEAN}

ManifestPaths ==
    {PathJoin(<<Layout.srcDir, PackageJson>>),
     PathJoin(<<Layout.srcDir, <<"h">>, PackageJson>>)}

InitAmend ==
    /\ pc = "amend"
    /\ params = Layout
    /\ arg \in [packageJson : ManifestPaths,
                parsedPackage : Manifests(AmendNames),
                isGeneratedPackageJson : BOOLEAN]
    /\ modulesManifest \in ModuleMapsOf(Layout, {Get(arg.parsedPackage, "name")})
    /\ ret = <<>>
    /\ disk = <<>>
    /\ writes = <<>>
    /\ stderr = <<>>
    /\ Unused

\* console.error of a warning (nothing is printed when there is none)
Warn(log, warning) == IF warning = "none" THEN log ELSE Append(log, warning)

CallAmend ==
    /\ pc = "amend"
    /\ LET r == amendPackageJson(params, modulesManifest, arg.packageJson,
                                 arg.parsedPackage, arg.isGeneratedPackageJson)
       IN  /\ ret' = <<r>>
           /\ stderr' = Warn(stderr, r.warning)
    /\ pc' = "amended"
    /\ UNCHANGED <<params, modulesManifest, arg, disk, writes>>
    /\ UnusedUnchanged

CallReAmend ==
    /\ pc = "amended"
    /\ LET r == amendPackageJson(params, modulesManifest, arg.packageJson,
                                 JsonParse(ret[1].content), FALSE)
       IN  /\ ret' = Append(ret, r)
           /\ stderr' = Warn(stderr, r.warning)
    /\ pc' = "reamended"
    /\ UNCHANGED <<params, modulesManifest, arg, disk, writes>>
    /\ UnusedUnchanged

NextAmend == CallAmend \/ CallReAmend

SpecAmend == InitAmend /\ [][NextAmend]_vars

\* what the call under study was given and found
ArgName == Get(arg.parsedPackage, "name")
ArgHasModule == ArgName \in DOMAIN modulesManifest
ArgGuessed == ArgHasModule /\ modulesManifest[ArgName].guessedPaths
Amended == pc \in {"amended", "reamended"}

\* C1 as claimed: a package.json that sets a format property and is not
\* synthesized is returned unchanged, whatever the module entry; and re-amending
\* (not synthesized) what a successful amendment returned changes nothing.
C1_AsClaimed ==
    /\ (/\ Amended
        /\ hasExplicitFormatProperties(arg.parsedPackage)
        /\ ~arg.isGeneratedPackageJson)
       => /\ ret[1].content = JsonStringify(arg.parsedPackage)
          /\ ret[1].warning # "none"
    /\ (pc = "reamended" /\ ret[1].warning = "none")
       => ret[2].content = ret[1].content

\* C1, amended: a package.json that sets a format property and is not synthesized
\* is returned unchanged when its module entry is path-guessed (or missing); for
\* an entry that is not path-guessed the format properties are overwritten.
\* Re-amending (not synthesized) what a successful amendment returned changes
\* nothing, for every module entry.
C1_SkipWhenGuessed ==
    /\ (/\ Amended
        /\ hasExplicitFormatProperties(arg.parsedPackage)
        /\ ~arg.isGeneratedPackageJson
        /\ (ArgGuessed \/ ~ArgHasModule))
       => /\ ret[1].content = JsonStringify(arg.parsedPackage)
          /\ ret[1].warning # "none"
    /\ (/\ Amended
        /\ hasExplicitFormatProperties(arg.parsedPackage)
        /\ ~arg.isGeneratedPackageJson
        /\ ArgHasModule
        /\ ~ArgGuessed)
       => /\ ret[1].warning = "none"
          /\ Get(JsonParse(ret[1].content), "main") = getBundleName(ArgName, Bundles)
    /\ (pc = "reamended" /\ ret[1].warning = "none")
       => ret[2].content = ret[1].content

C1_Witness ==
    /\ pc = "reamended"
    /\ hasExplicitFormatProperties(arg.parsedPackage)
    /\ ~arg.isGeneratedPackageJson
    /\ ArgGuessed
    /\ ret[1].warning = "explicit format properties"
    /\ ret[2].content = JsonStringify(arg.parsedPackage)

\* the rule that skips the amendment does not apply
NotSkipped ==
    \/ ~ArgGuessed
    \/ arg.isGeneratedPackageJson
    \/ ~hasExplicitFormatProperties(arg.parsedPackage)

IsFormatField(key) ==
    \E f \in 1..Len(knownFormatPackageJsonFields) : knownFormatPackageJsonFields[f] = key

\* C4: when a module entry exists for the name and the skip rule does not apply,
\* the result has all six format properties, main = getBundleName(name, 'bundles'),
\* fesm2015 = getBundleName(name, 'fesm2015'), module = es2015 = fesm2015, every
\* other property of the input (name included) is unchanged and nothing else is
\* added.
C4_FormatProperties ==
    (Amended /\ ArgHasModule /\ NotSkipped) =>
        LET result == JsonParse(ret[1].content)
            given == arg.parsedPackage
        IN  /\ \A f \in 1..Len(knownFormatPackageJsonFields) :
                   /\ HasKey(result, knownFormatPackageJsonFields[f])
                   /\ Len(Get(result, knownFormatPackageJsonFields[f])) > 0
            /\ Get(result, "main") = getBundleName(ArgName, Bundles)
            /\ Get(result, "fesm2015") = getBundleName(ArgName, Fesm2015)
            /\ Get(result, "module") = Get(result, "fesm2015")
            /\ Get(result, "es2015") = Get(result, "fesm2015")
            /\ Get(result, "name") = ArgName
            /\ \A k \in 1..Len(given) :
                   ~IsFormatField(given[k][1]) => result[k] = given[k]
            /\ \A k \in 1..Len(result) :
                   IsFormatField(result[k][1]) \/ HasKey(given, result[k][1])
            /\ \A k, l \in 1..Len(result) : result[k][1] = result[l][1] => k = l

C4_Witness ==
    /\ pc = "amended"
    /\ ArgHasModule
    /\ ~ArgGuessed
    /\ HasKey(arg.parsedPackage, "version")
    /\ HasKey(arg.parsedPackage, "main")
    /\ Get(JsonParse(ret[1].content), "main") # Get(arg.parsedPackage, "main")
    /\ Get(JsonParse(ret[1].content), "version") = Get(arg.parsedPackage, "version")

(***************************************************************************)
(* SpecWrite: writeFileFromInputPath applied to an input path              *)
(***************************************************************************)

MaxPathLen == 5

PathAlphabet == {"s", "b", "g", "x", "/"}

\* the file paths Bazel hands over: relative and normalized
InputPaths ==
    {p \in StringsUpTo(PathAlphabet, MaxPathLen) :
        /\ Len(p) > 0
        /\ p[1] # "/"
        /\ p[Len(p)] # "/"
        /\ ~Includes(p, <<"/", "/">>)}

FileContents == {<<"c">>}

InitWrite ==
    /\ pc = "write"
    /\ params = Layout
    /\ modulesManifest = <<>>
    /\ arg \in [inputPath : InputPaths, fileContent : FileContents]
    /\ ret = <<>>
    /\ disk = <<>>
    /\ writes = <<>>
    /\ stderr = <<>>
    /\ Unused

\* writeFileFromInputPath with a required default case: a path that matches
\* none of the three roots is a fault that aborts the run
CallWriteFileFromInputPathStrict ==
    /\ pc = "write"
    /\ IF \/ Includes(arg.inputPath, params.binDir)
          \/ Includes(arg.inputPath, params.genfilesDir)
          \/ Includes(arg.inputPath, params.srcDir)
       THEN /\ disk' = WriteFile(disk, OutputPathOf(params, arg.inputPath),
                                 arg.fileContent)
            /\ writes' = Append(writes, Written(params, arg.inputPath, arg.fileContent))
            /\ pc' = "written"
       ELSE /\ pc' = "aborted"
            /\ UNCHANGED <<disk, writes>>
    /\ UNCHANGED <<params, modulesManifest, arg, ret, stderr>>
    /\ UnusedUnchanged

CallWriteFileFromInputPath ==
    /\ pc = "write"
    /\ disk' = WriteFile(disk, OutputPathOf(params, arg.inputPath), arg.fileContent)
    /\ writes' = Append(writes, Written(params, arg.inputPath, arg.fileContent))
    /\ pc' = "written"
    /\ UNCHANGED <<params, modulesManifest, arg, ret, stderr>>
    /\ UnusedUnchanged

NextWrite == CallWriteFileFromInputPath

SpecWrite == InitWrite /\ [][NextWrite]_vars

Roots == {params.srcDir, params.binDir, params.genfilesDir}

\* the provenance test of the program: the path contains the root
Matches(path, root) == Includes(path, root)

\* the path names a file below the directory
Below(path, dir) == StartsWith(path, dir \o Slash) /\ Len(path) > Len(dir) + 1

\* the part of a path below dir that follows dir
SuffixBelow(path, dir) == Substr(path, Len(dir) + 1)

UniquelyClassifiable(path, root) ==
    /\ path # root
    /\ Matches(path, root)
    /\ \A other \in Roots \ {root} : ~Matches(path, other)

\* C7 as claimed: for every input path uniquely classifiable into one of the
\* three roots the output path is out joined with the path's suffix relative to
\* that root, so it lies under out and has no ".." step.
C7_AsClaimed ==
    \A root \in Roots :
        (pc = "written" /\ UniquelyClassifiable(arg.inputPath, root)) =>
            /\ writes[1].outputPath
                   = PathJoin(<<params.out, Relative(root, arg.inputPath)>>)
            /\ Below(writes[1].outputPath, params.out)
            /\ ~Includes(writes[1].outputPath, DotDot)

(***************************************************************************)
(* SpecCopy: copyFile applied to a bundle or flat module file              *)
(***************************************************************************)

\* file names: plain, escaping one directory, escaping two
CopyStems == {<<"a">>, <<"a", "_", "_", "b">>, <<"a", "_", "_", "b", "_", "_", "c">>}

CopyExtensions == {DotJs, DotMjs, DotJs \o DotMap}

CopyFiles == {Layout.binDir \o Slash \o stem \o ext :
                  stem \in CopyStems, ext \in CopyExtensions}

\* the sourceMappingURL comment naming a map file
MapReference(name) == <<"u", "="  >> \o name \o DotMap

\* contents: no source-map reference, a reference to the file's own map, a
\* reference to another file's map
CopyContents(file) ==
    {<< <<"x">> >>,
     << <<"x">>, MapReference(Basename(file)) >>,
     << MapReference(<<"z", ".", "j", "s">>), <<"x">> >>}

StaleContent == << <<"o", "l", "d">> >>

\* the destination: empty, or holding a file of the input's name left there by
\* an earlier run
CopyDisks(file, relative) ==
    {<<>>,
     [f \in {PathJoin(<<Layout.out, relative, Basename(file)>>)} |-> StaleContent]}

InitCopy ==
    /\ pc = "copy"
    /\ params = Layout
    /\ modulesManifest = <<>>
    /\ \E file \in CopyFiles, relative \in {Dot, Fesm2015} :
           /\ arg \in [file : {file},
                       content : CopyContents(file),
                       baseDir : {Layout.out},
                       relative : {relative}]
           /\ disk \in CopyDisks(file, relative)
    /\ ret = <<>>
    /\ writes = <<>>
    /\ stderr = <<>>
    /\ Unused

CallCopyFile ==
    /\ pc = "copy"
    /\ ret' = <<copyFile(disk, arg.file, arg.content, arg.baseDir, arg.relative)>>
    /\ disk' = ret'[1].disk
    /\ pc' = IF ret'[1].thrown THEN "aborted" ELSE "copied"
    /\ UNCHANGED <<params, modulesManifest, arg, writes, stderr>>
    /\ UnusedUnchanged

NextCopy == CallCopyFile

SpecCopy == InitCopy /\ [][NextCopy]_vars

\* the output file name of the call under study (.mjs remapped to .js)
ArgOutName ==
    IF EndsWith(arg.file, DotMjs)
    THEN ReplaceSuffix(Basename(arg.file), DotMjs, DotJs)
    ELSE Basename(arg.file)

ArgDir == PathJoin(<<arg.baseDir, arg.relative>>)

\* C10 as claimed: for every placed file whose output filename contains '__'
\* (inputs with the .mjs extension included), after place the content is at the
\* un-escaped path (the parts split on '__' joined as directories), no file is
\* left at the escaped flat name, and a reference to the old <name>.map inside a
\* .js file is rewritten to the new basename's .map.
C10_AsClaimed ==
    (pc # "copy" /\ Includes(ArgOutName, Escape)) =>
        LET unescaped == PathJoin(<<ArgDir>> \o Split(ArgOutName, Escape))
            escaped == PathJoin(<<ArgDir, ArgOutName>>)
        IN  /\ pc = "copied"
            /\ unescaped \in DOMAIN disk
            /\ escaped \notin DOMAIN disk
            /\ Len(disk[unescaped]) = Len(arg.content)
            /\ \A k \in 1..Len(arg.content) :
                   IF /\ EndsWith(ArgOutName, DotJs)
                      /\ arg.content[k] = MapReference(Basename(arg.file))
                   THEN disk[unescaped][k] = MapReference(Basename(unescaped))
                   ELSE disk[unescaped][k] = arg.content[k]

(***************************************************************************)
(* Spec: a run of main from the srcs loop to its return                    *)
(***************************************************************************)

MaxSrcs == 2

\* Object.keys(modulesManifest): the modules in the order of the manifest
ModuleOrder == <<NameAC, NameACH, NameBCH>>

InManifest(name) == name \in DOMAIN modulesManifest

ModuleKeys == SelectSeq(ModuleOrder, InManifest)

\* a module is absent, declared with metadata, or guessed without metadata
ModuleOptions == {"absent", "declared", "guessed"}

ModuleMapOf(prm, options) ==
    [name \in {n \in DOMAIN options : options[n] # "absent"} |->
         ModuleFiles(prm, name, options[name] = "declared", options[name] = "guessed")]

ModuleMaps(prm) ==
    {ModuleMapOf(prm, options) :
         options \in [{ModuleOrder[k] : k \in 1..Len(ModuleOrder)} -> ModuleOptions]}

SrcFile(src, content) == [src |-> src, content |-> content]

\* The files srcs may list: package.json files in the source tree (one at
\* the package root, two alternatives for a subdirectory), a package.json
\* that is the output of another rule, and two other files.
SrcFiles ==
    {SrcFile(PathJoin(<<Layout.srcDir, PackageJson>>),
             JsonText(<< <<"name", NameAC>>, <<"main", <<"m", ".", "j", "s">> >> >>, 4)),
     SrcFile(PathJoin(<<Layout.srcDir, <<"h">>, PackageJson>>),
             JsonText(<< <<"name", NameACH>> >>, 2)),
     SrcFile(PathJoin(<<Layout.srcDir, <<"h">>, PackageJson>>),
             JsonText(<< <<"name", NameBCH>>, <<"version", <<"1">> >> >>, 2)),
     SrcFile(PathJoin(<<Layout.binDir, PackageJson>>),
             JsonText(<< <<"name", NameBCH>> >>, 2)),
     SrcFile(PathJoin(<<Layout.srcDir, <<"x">> >>), <<"c">>),
     SrcFile(PathJoin(<<Layout.genfilesDir, <<"x">> >>), <<"c">>)}

\* srcs lists a path once
SrcLists ==
    {q \in UNION {[1..n -> SrcFiles] : n \in 0..MaxSrcs} :
         \A i, j \in 1..Len(q) : q[i].src = q[j].src => i = j}

Init ==
    /\ pc = "srcs"
    /\ params = Layout
    /\ modulesManifest \in ModuleMaps(Layout)
    /\ srcs \in SrcLists
    /\ srcIdx = 1
    /\ modIdx = 0
    /\ errorHasOccured = FALSE
    /\ rootPackageName = <<>>
    /\ packagesWithExistingPackageJson = {}
    /\ disk = <<>>
    /\ writes = <<>>
    /\ stderr = <<>>
    /\ exitCode = "none"
    /\ arg = <<>>
    /\ ret = <<>>

IsPackageJson(src) == Basename(src) = PackageJson

\* src.includes(binDir) || src.includes(genfilesDir)
IsOutputOfOtherRule(prm, src) == Includes(src, prm.binDir) \/ Includes(src, prm.genfilesDir)

\* errorHasOccured telling only about the src at hand
ErrorOfLastSrc(prm, flag, src) == IsOutputOfOtherRule(prm, src)

\* errorHasOccured after a src: set for an output of another rule, else kept
ErrorAfter(prm, flag, src) == flag \/ IsOutputOfOtherRule(prm, src)

ShouldNotInclude == "srcs should not include output of other rules"

ErrorLogged(prm, log, src) ==
    IF IsOutputOfOtherRule(prm, src) THEN Append(log, ShouldNotInclude) ELSE log

\* what the loop body writes for a src: a package.json amended, any other file
\* as it is
SrcWritten(prm, mm, file) ==
    IF IsPackageJson(file.src)
    THEN LoggedAmended(prm, file.src,
                       amendPackageJson(prm, mm, file.src, JsonParse(file.content), FALSE),
                       "src", file.src)
    ELSE Logged(Written(prm, file.src, file.content), "src", file.src, "none")

\* rootPackageName where a name as short as the root replaces it
RootAfterPreferringLater(root, packageName) ==
    IF root = <<>> \/ Len(packageName) <= Len(root) THEN packageName ELSE root

\* rootPackageName after a package.json of the given name
RootAfter(root, packageName) ==
    IF root = <<>> \/ Len(packageName) < Len(root) THEN packageName ELSE root

\* the body of the srcs loop where a missing module fails the run
ProcessSrcFailingOnMissingModule ==
    /\ pc = "srcs"
    /\ srcIdx <= Len(srcs)
    /\ writes' = Append(writes, SrcWritten(params, modulesManifest, srcs[srcIdx]))
    /\ errorHasOccured' = (\/ ErrorAfter(params, errorHasOccured, srcs[srcIdx].src)
                           \/ writes'[Len(writes')].warning = "no module metadata")
    /\ stderr' = WarnAll(ErrorLogged(params, stderr, srcs[srcIdx].src),
                         <<writes'[Len(writes')]>>)
    /\ disk' = WriteAll(disk, <<writes'[Len(writes')]>>)
    /\ IF IsPackageJson(srcs[srcIdx].src)
       THEN /\ packagesWithExistingPackageJson' =
                   packagesWithExistingPackageJson
                       \cup {Get(JsonParse(srcs[srcIdx].content), "name")}
            /\ rootPackageName' =
                   RootAfter(rootPackageName, Get(JsonParse(srcs[srcIdx].content), "name"))
       ELSE UNCHANGED <<packagesWithExistingPackageJson, rootPackageName>>
    /\ srcIdx' = srcIdx + 1
    /\ UNCHANGED <<pc, params, modulesManifest, srcs, modIdx, exitCode, arg, ret>>

\* the body of the srcs loop, for srcs[srcIdx]
ProcessSrc ==
    /\ pc = "srcs"
    /\ srcIdx <= Len(srcs)
    /\ errorHasOccured' = ErrorAfter(params, errorHasOccured, srcs[srcIdx].src)
    /\ writes' = Append(writes, SrcWritten(params, modulesManifest, srcs[srcIdx]))
    /\ stderr' = WarnAll(ErrorLogged(params, stderr, srcs[srcIdx].src),
                         <<writes'[Len(writes')]>>)
    /\ disk' = WriteAll(disk, <<writes'[Len(writes')]>>)
    /\ IF IsPackageJson(srcs[srcIdx].src)
       THEN /\ packagesWithExistingPackageJson' =
                   packagesWithExistingPackageJson
                       \cup {Get(JsonParse(srcs[srcIdx].content), "name")}
            /\ rootPackageName' =
                   RootAfter(rootPackageName, Get(JsonParse(srcs[srcIdx].content), "name"))
       ELSE UNCHANGED <<packagesWithExistingPackageJson, rootPackageName>>
    /\ srcIdx' = srcIdx + 1
    /\ UNCHANGED <<pc, params, modulesManifest, srcs, modIdx, exitCode, arg, ret>>

\* the srcs loop ends and the generation of the entry point files begins
SrcsDone ==
    /\ pc = "srcs"
    /\ srcIdx > Len(srcs)
    /\ pc' = "entryPoints"
    /\ modIdx' = 1
    /\ UNCHANGED <<params, modulesManifest, srcs, srcIdx, errorHasOccured, rootPackageName,
                   packagesWithExistingPackageJson, disk, writes, stderr, exitCode, arg, ret>>

\* entryPointPackageName.substr(rootPackageName.length + 1)
EntryPointName(root, entryPointPackageName) == Substr(entryPointPackageName, Len(root) + 1)

\* Generate extra files for secondary entry-points: the body for one module
GenerateEntryPoint ==
    /\ pc = "entryPoints"
    /\ modIdx <= Len(ModuleKeys)
    /\ writes' = writes \o EntryPointFiles(params, modulesManifest,
                                           packagesWithExistingPackageJson,
                                           EntryPointName(rootPackageName, ModuleKeys[modIdx]),
                                           ModuleKeys[modIdx])
    /\ disk' = WriteAll(disk, SubSeq(writes', Len(writes) + 1, Len(writes')))
    /\ stderr' = WarnAll(stderr, SubSeq(writes', Len(writes) + 1, Len(writes')))
    /\ modIdx' = modIdx + 1
    /\ UNCHANGED <<pc, params, modulesManifest, srcs, srcIdx, errorHasOccured,
                   rootPackageName, packagesWithExistingPackageJson, exitCode, arg, ret>>

\* return errorHasOccured ? 1 : 0
Return ==
    /\ pc = "entryPoints"
    /\ modIdx > Len(ModuleKeys)
    /\ exitCode' = IF errorHasOccured THEN 1 ELSE 0
    /\ pc' = "done"
    /\ UNCHANGED <<params, modulesManifest, srcs, srcIdx, modIdx, errorHasOccured,
                   rootPackageName, packagesWithExistingPackageJson, disk, writes, stderr,
                   arg, ret>>

Next == ProcessSrc \/ SrcsDone \/ GenerateEntryPoint \/ Return

Spec == Init /\ [][Next]_vars

\* the srcs the loop has gone through
ProcessedSrcs == 1..(srcIdx - 1)

\* the name a package.json of the srcs declares
DeclaredName(k) == Get(JsonParse(srcs[k].content), "name")

\* srcs[k] is a package.json whose name has no record in the modules manifest
LacksModule(k) == IsPackageJson(srcs[k].src) /\ DeclaredName(k) \notin DOMAIN modulesManifest

\* the provenance test of the program, on a src: it lies in the bin tree or in
\* the genfiles tree
LiesInOutputTree(src) == Matches(src, params.binDir) \/ Matches(src, params.genfilesDir)

\* C3: a package.json of the srcs whose name has no record in the modules
\* manifest is written with exactly the properties and values it came with, the
\* warning is printed, and the run goes on: the error flag and the exit status
\* tell only whether a src lies in an output tree, and right after the src is
\* processed the unmodified package.json is in the output tree.
C3_MissingModuleKeepsManifest ==
    /\ \A k \in ProcessedSrcs :
           LacksModule(k) =>
               /\ writes[k].inputPath = srcs[k].src
               /\ writes[k].outputPath = OutputPathOf(params, srcs[k].src)
               /\ JsonParse(writes[k].content) = JsonParse(srcs[k].content)
               /\ writes[k].warning = "no module metadata"
               /\ \E i \in 1..Len(stderr) : stderr[i] = "no module metadata"
               /\ (pc = "srcs" /\ srcIdx = k + 1)
                  => /\ writes[k].outputPath \in DOMAIN disk
                     /\ JsonParse(disk[writes[k].outputPath]) = JsonParse(srcs[k].content)
    /\ (\A k \in ProcessedSrcs : ~LiesInOutputTree(srcs[k].src)) => ~errorHasOccured
    /\ (pc = "done" /\ \A k \in 1..Len(srcs) : ~LiesInOutputTree(srcs[k].src))
       => exitCode = 0
    /\ pc \in {"srcs", "entryPoints", "done"}
    /\ pc = "srcs" => srcIdx \in 1..(Len(srcs) + 1)

C3_Witness ==
    /\ pc = "done"
    /\ exitCode = 0
    /\ \E k \in 1..Len(srcs) :
           /\ LacksModule(k)
           /\ HasKey(JsonParse(srcs[k].content), "main")
           /\ Keys(JsonParse(writes[k].content)) = <<"name", "main">>
           /\ OutputPathOf(params, srcs[k].src) \in DOMAIN disk
    /\ stderr = <<"no module metadata">>

\* C5: the exit status is non-zero exactly when a src lies in the bin tree or
\* the genfiles tree; the error flag is set from the first such src on and never
\* cleared; every src, such a src and the ones after it included, is processed
\* and written, and the entry point files are generated for every module before
\* main returns.
C5_ExitStatus ==
    /\ errorHasOccured = (\E k \in ProcessedSrcs : LiesInOutputTree(srcs[k].src))
    /\ \A k \in ProcessedSrcs :
           /\ writes[k].kind = "src"
           /\ writes[k].inputPath = srcs[k].src
           /\ writes[k].outputPath = OutputPathOf(params, srcs[k].src)
    /\ pc \in {"srcs", "entryPoints", "done"}
    /\ pc # "done" => exitCode = "none"
    /\ pc = "srcs" => srcIdx \in 1..(Len(srcs) + 1)
    /\ pc = "entryPoints" => (srcIdx = Len(srcs) + 1 /\ modIdx \in 1..(Len(ModuleKeys) + 1))
    /\ pc = "done" =>
           /\ exitCode \in {0, 1}
           /\ (exitCode # 0) = (\E k \in 1..Len(srcs) : LiesInOutputTree(srcs[k].src))
           /\ srcIdx = Len(srcs) + 1
           /\ modIdx = Len(ModuleKeys) + 1
           /\ \A name \in DOMAIN modulesManifest :
                  Len(name) > Len(rootPackageName) + 1
                      => \E k \in (Len(srcs) + 1)..Len(writes) :
                             writes[k].kind = "typings" /\ writes[k].owner = name

C5_Witness ==
    /\ pc = "done"
    /\ exitCode = 1
    /\ Len(srcs) = 2
    /\ LiesInOutputTree(srcs[1].src)
    /\ ~LiesInOutputTree(srcs[2].src)
    /\ writes[2].inputPath = srcs[2].src
    /\ Len(writes) > 2

\* the modules the entry point generation has gone through
Generated(name) == \E j \in 1..(modIdx - 1) : ModuleKeys[j] = name

LacksMetadata(name) == modulesManifest[name].metadata = NoValue

\* the files of a kind written for a module
WritesFor(name, kind) ==
    {k \in 1..Len(writes) : writes[k].kind = kind /\ writes[k].owner = name}

\* a package.json of the srcs declares the name
DeclaredInSrcs(name) ==
    \E k \in 1..Len(srcs) : IsPackageJson(srcs[k].src) /\ DeclaredName(k) = name

\* C8 as claimed: for every module without metadata no metadata re-export file
\* is ever written, a typings re-export file is always written, and a
\* package.json is generated when no package.json of the srcs declares the name.
C8_AsClaimed ==
    \A name \in DOMAIN modulesManifest :
        LacksMetadata(name) =>
            /\ WritesFor(name, "metadata") = {}
            /\ Generated(name) =>
                   /\ WritesFor(name, "typings") # {}
                   /\ ~DeclaredInSrcs(name) => WritesFor(name, "packageJson") # {}

\* C8, amended: for every module without metadata no metadata re-export file is
\* ever written.  When the module's name is longer than the root package name
\* and one delimiter, a typings re-export file is written for it and, when no
\* package.json of the srcs declares the name, a package.json carrying the name
\* is generated.  Otherwise (the module is the root package, or its name is not
\* longer than the root's plus one) nothing is written for it.
C8_WithoutMetadata ==
    \A name \in DOMAIN modulesManifest :
        LacksMetadata(name) =>
            /\ WritesFor(name, "metadata") = {}
            /\ (Generated(name) /\ Len(name) > Len(rootPackageName) + 1) =>
                   /\ Cardinality(WritesFor(name, "typings")) = 1
                   /\ IF DeclaredInSrcs(name)
                      THEN WritesFor(name, "packageJson") = {}
                      ELSE /\ Cardinality(WritesFor(name, "packageJson")) = 1
                           /\ \A k \in WritesFor(name, "packageJson") :
                                  /\ Get(JsonParse(writes[k].content), "name") = name
                                  /\ Basename(writes[k].inputPath) = PackageJson
            /\ Len(name) <= Len(rootPackageName) + 1 =>
                   /\ WritesFor(name, "typings") = {}
                   /\ WritesFor(name, "packageJson") = {}

C8_Witness ==
    /\ pc = "done"
    /\ \E name \in DOMAIN modulesManifest :
           /\ LacksMetadata(name)
           /\ ~DeclaredInSrcs(name)
           /\ WritesFor(name, "metadata") = {}
           /\ WritesFor(name, "typings") # {}
           /\ WritesFor(name, "packageJson") # {}
    /\ \E name \in DOMAIN modulesManifest :
           /\ LacksMetadata(name)
           /\ name = rootPackageName
           /\ WritesFor(name, "typings") = {}

\* the name is the root package name followed by the delimiter and a non-empty
\* local name
Extends(name, root) == StartsWith(name, root \o Slash) /\ Len(name) > Len(root) + 1

\* C9 as claimed: files are generated only for the modules whose name extends
\* the root package name, under the local name that is left when the root name
\* and the delimiter are removed; the module that is the root and a module whose
\* name does not start with the root name get no generated file.
C9_AsClaimed ==
    pc = "done" =>
        \A name \in DOMAIN modulesManifest :
            IF Extends(name, rootPackageName)
            THEN \A k \in WritesFor(name, "typings") :
                     writes[k].inputPath
                         = PathJoin(<<params.srcDir,
                                      Substr(name, Len(rootPackageName) + 1) \o DotDTs>>)
            ELSE /\ WritesFor(name, "typings") = {}
                 /\ WritesFor(name, "metadata") = {}
                 /\ WritesFor(name, "packageJson") = {}

\* the package.json files among the srcs the loop has gone through
ProcessedPackageJsons == {k \in ProcessedSrcs : IsPackageJson(srcs[k].src)}

\* srcs[k] is the first package.json, of those processed, with a name of the
\* least length
IsFirstShortest(k) ==
    /\ k \in ProcessedPackageJsons
    /\ \A j \in ProcessedPackageJsons :
           \/ Len(DeclaredName(k)) < Len(DeclaredName(j))
           \/ Len(DeclaredName(k)) = Len(DeclaredName(j)) /\ k <= j

\* what the srcs processed so far make the root package name
RootOfProcessed ==
    IF ProcessedPackageJsons = {} THEN <<>>
    ELSE DeclaredName(CHOOSE k \in ProcessedPackageJsons : IsFirstShortest(k))

RootIsFirstShortest ==
    /\ rootPackageName = RootOfProcessed
    /\ (rootPackageName = <<>>) = (ProcessedPackageJsons = {})
    /\ pc \in {"entryPoints", "done"} => ProcessedSrcs = 1..Len(srcs)

RootNeverGrows ==
    rootPackageName # <<>> =>
        /\ rootPackageName' # <<>>
        /\ Len(rootPackageName') <= Len(rootPackageName)

\* C11: once the srcs are processed the root package name is the name of the
\* first package.json, in the order of the srcs, whose name has the least
\* length, whether or not the modules manifest has that name and whether or not
\* its amendment was skipped; it is empty exactly when the srcs hold no
\* package.json; and in the loop its length never increases once it is set.
C11_RootPackageName == []RootIsFirstShortest /\ [][RootNeverGrows]_vars

C11_Witness ==
    /\ pc = "done"
    /\ Len(srcs) = 2
    /\ IsPackageJson(srcs[1].src) /\ IsPackageJson(srcs[2].src)
    /\ DeclaredName(1) # DeclaredName(2)
    /\ Len(DeclaredName(1)) = Len(DeclaredName(2))
    /\ rootPackageName = DeclaredName(1)
    /\ LacksModule(1)
    /\ ~LacksModule(2)

\* C12 as claimed: no generated package.json is written at the output path of a
\* package.json of the srcs, so a package.json written from the srcs is never
\* overwritten by a generated one.
C12_AsClaimed ==
    \A i, j \in 1..Len(writes) :
        (/\ writes[i].kind = "src"
         /\ IsPackageJson(writes[i].inputPath)
         /\ writes[j].kind = "packageJson")
        => writes[j].outputPath # writes[i].outputPath
====
